---- MODULE Spec2Model ----
(***************************************************************************)
(* Model of scripts/ci/prerelease_guard.py: the release-tag stage gate.    *)
(* Strings are sequences of one-character strings, so that the regular     *)
(* expressions, the `v<version>*` tag glob and the Cargo.toml line scan    *)
(* are computed character by character as the script computes them.        *)
(***************************************************************************)
EXTENDS Integers, Sequences, FiniteSets, TLC

VARIABLES tag, mode, fail_on_violation, required_prev, repo_tags,
          pc, version, stage, stage_number, tag_sha, proc_returncode,
          sibling_tags, sibling_stages, cargo_toml, cargo_version,
          violations, warnings, ready_to_publish, report, exit_code, git_calls

vars == <<tag, mode, fail_on_violation, required_prev, repo_tags,
          pc, version, stage, stage_number, tag_sha, proc_returncode,
          sibling_tags, sibling_stages, cargo_toml, cargo_version,
          violations, warnings, ready_to_publish, report, exit_code, git_calls>>

----------------------------------------------------------------------------
(* Bounds of the model *)

\* largest number of tags present in the repository
MaxRepoTags == 3

----------------------------------------------------------------------------
(* Character-level helpers *)

Digits == {"0", "1", "2", "3", "4", "5", "6", "7", "8", "9"}

\* Python's None for stage_number
NoNumber == -1

DigitVal(c) ==
  CASE c = "0" -> 0 [] c = "1" -> 1 [] c = "2" -> 2 [] c = "3" -> 3
    [] c = "4" -> 4 [] c = "5" -> 5 [] c = "6" -> 6 [] c = "7" -> 7
    [] c = "8" -> 8 [] OTHER -> 9

RECURSIVE ToInt(_)
\* int("123")
ToInt(s) ==
  IF s = <<>> THEN 0
  ELSE 10 * ToInt(SubSeq(s, 1, Len(s) - 1)) + DigitVal(s[Len(s)])

RECURSIVE SkipDigits(_, _)
\* index of the first character at or after i that is not a digit
SkipDigits(s, i) ==
  IF i <= Len(s) /\ s[i] \in Digits THEN SkipDigits(s, i + 1) ELSE i

\* \d+ at position i: the position after the digits, 0 when none matches
MatchDigits(s, i) ==
  IF i = 0 THEN 0
  ELSE LET j == SkipDigits(s, i) IN IF j > i THEN j ELSE 0

\* a literal at position i: the position after it, 0 when it does not match
MatchLit(s, i, lit) ==
  IF i # 0 /\ i + Len(lit) - 1 <= Len(s) /\ SubSeq(s, i, i + Len(lit) - 1) = lit
  THEN i + Len(lit)
  ELSE 0

\* \d+\.\d+\.\d+ at position i
MatchVersion(s, i) ==
  MatchDigits(s, MatchLit(s, MatchDigits(s, MatchLit(s, MatchDigits(s, i), <<".">>)), <<".">>))

\* str.startswith
StartsWith(s, p) == Len(s) >= Len(p) /\ SubSeq(s, 1, Len(p)) = p

StageChars(st) ==
  CASE st = "alpha" -> <<"a", "l", "p", "h", "a">>
    [] st = "beta" -> <<"b", "e", "t", "a">>
    [] st = "rc" -> <<"r", "c">>
    [] OTHER -> <<>>

----------------------------------------------------------------------------
(* Module constants of the script *)

\* STABLE_TAG_RE.fullmatch without the end anchor: a prefix match
STABLE_TAG_RE_prefix(s) ==
  LET e == MatchVersion(s, MatchLit(s, 1, <<"v">>))
  IN  [ok |-> e # 0, version |-> IF e # 0 THEN SubSeq(s, 2, e - 1) ELSE <<>>]

\* STABLE_TAG_RE.fullmatch(s): ^v(?P<version>\d+\.\d+\.\d+)$
STABLE_TAG_RE(s) ==
  LET e == MatchVersion(s, MatchLit(s, 1, <<"v">>))
  IN  [ok |-> e = Len(s) + 1,
       version |-> IF e = Len(s) + 1 THEN SubSeq(s, 2, e - 1) ELSE <<>>]

\* PRERELEASE_TAG_RE.fullmatch(s):
\* ^v(?P<version>\d+\.\d+\.\d+)-(?P<stage>alpha|beta|rc)\.(?P<number>\d+)$
PRERELEASE_TAG_RE(s) ==
  LET e  == MatchVersion(s, MatchLit(s, 1, <<"v">>))
      d  == MatchLit(s, e, <<"-">>)
      st == IF MatchLit(s, d, StageChars("alpha")) # 0 THEN "alpha"
            ELSE IF MatchLit(s, d, StageChars("beta")) # 0 THEN "beta"
            ELSE IF MatchLit(s, d, StageChars("rc")) # 0 THEN "rc"
            ELSE ""
      a  == IF st = "" THEN 0 ELSE MatchLit(s, d, StageChars(st))
      n  == MatchLit(s, a, <<".">>)
      z  == MatchDigits(s, n)
      ok == z # 0 /\ z = Len(s) + 1
  IN  [ok |-> ok,
       version |-> IF ok THEN SubSeq(s, 2, e - 1) ELSE <<>>,
       stage |-> IF ok THEN st ELSE "",
       number |-> IF ok THEN ToInt(SubSeq(s, n, Len(s))) ELSE NoNumber]

\* STAGE_RANK.get(s, 0)
STAGE_RANK(s) ==
  CASE s = "alpha" -> 1 [] s = "beta" -> 2 [] s = "rc" -> 3 [] s = "stable" -> 4
    [] OTHER -> 0

\* parse_tag(tag); ok = FALSE stands for the raised ValueError
parse_tag(t) ==
  LET stable_match == STABLE_TAG_RE(t)
      pre_match    == PRERELEASE_TAG_RE(t)
  IN  IF stable_match.ok
      THEN [ok |-> TRUE, version |-> stable_match.version, stage |-> "stable",
            number |-> NoNumber]
      ELSE IF pre_match.ok
      THEN [ok |-> TRUE, version |-> pre_match.version, stage |-> pre_match.stage,
            number |-> pre_match.number]
      ELSE [ok |-> FALSE, version |-> <<>>, stage |-> "", number |-> NoNumber]

----------------------------------------------------------------------------
(* Text helpers of the Cargo.toml scan and of the tag listing *)

RECURSIVE LStrip(_)
LStrip(s) == IF s # <<>> /\ s[1] = " " THEN LStrip(Tail(s)) ELSE s

RECURSIVE RStrip(_)
RStrip(s) ==
  IF s # <<>> /\ s[Len(s)] = " " THEN RStrip(SubSeq(s, 1, Len(s) - 1)) ELSE s

\* str.strip
Strip(s) == LStrip(RStrip(s))

RECURSIVE Find(_, _, _)
\* index of the first c in s at or after i, 0 when there is none
Find(s, c, i) ==
  IF i > Len(s) THEN 0 ELSE IF s[i] = c THEN i ELSE Find(s, c, i + 1)

\* line.split('"', 2)[1]; ok = FALSE stands for the raised IndexError
SplitQuote1(line) ==
  LET q1 == Find(line, "\"", 1)
      q2 == IF q1 = 0 THEN 0 ELSE Find(line, "\"", q1 + 1)
  IN  IF q1 = 0 THEN [ok |-> FALSE, value |-> <<>>]
      ELSE [ok |-> TRUE,
            value |-> SubSeq(line, q1 + 1, IF q2 = 0 THEN Len(line) ELSE q2 - 1)]

VersionKey == <<"v", "e", "r", "s", "i", "o", "n", " ", "=", " ">>

RECURSIVE ScanCargoToml(_)
\* the loop over cargo_toml.splitlines(): the value of the first line that
\* starts with `version = `, the empty string when there is no such line
ScanCargoToml(lines) ==
  IF lines = <<>> THEN [ok |-> TRUE, value |-> <<>>]
  ELSE LET line == Strip(Head(lines))
       IN  IF StartsWith(line, VersionKey) THEN SplitQuote1(line)
           ELSE ScanCargoToml(Tail(lines))

\* git tag --list "v{version}*" over the tags of the repository
GitTagList(ver, tags) == {t \in tags : StartsWith(t, <<"v">> \o ver)}

\* sibling_tags: the listed tags other than the candidate
SiblingTags(listed, t) == {u \in listed : Strip(u) # <<>> /\ Strip(u) # t}

\* sibling_stages: the stage of every sibling tag that parses
SiblingStages(sibs) == {parse_tag(u).stage : u \in {w \in sibs : parse_tag(w).ok}}

\* required_prev.get(stage); the empty string stands for None
PrerequisiteStage(policy, st) == IF st \in DOMAIN policy THEN policy[st] ELSE ""

\* max(STAGE_RANK.get(s, 0) for s in sibling_stages)
HighestSiblingRank(stages) ==
  LET ranks == {STAGE_RANK(s) : s \in stages}
  IN  CHOOSE r \in ranks : \A q \in ranks : q <= r

\* one entry of violations or warnings: the kind of the message and the
\* values interpolated into it
Msg(kind, t, sha, ver, st, pre, cv) ==
  [kind |-> kind, tag |-> t, tag_sha |-> sha, version |-> ver, stage |-> st,
   prerequisite_stage |-> pre, cargo_version |-> cv]

\* the stage prerequisite check
PrerequisiteViolations(policy, st, stages, ver, t) ==
  LET prerequisite_stage == PrerequisiteStage(policy, st)
  IN  IF prerequisite_stage # "" /\ prerequisite_stage \notin stages
      THEN <<Msg("MissingPrerequisiteStage", t, "", ver, st, prerequisite_stage, <<>>)>>
      ELSE <<>>

\* the stage regression check
RegressionViolations(st, stages, ver) ==
  IF stages # {} /\ HighestSiblingRank(stages) > STAGE_RANK(st)
  THEN <<Msg("StageRegression", <<>>, "", ver, st, "", <<>>)>>
  ELSE <<>>

\* the ancestry test on the exit status of git merge-base --is-ancestor,
\* telling "not an ancestor" (1) from a query that could not run
AncestryViolations_only_status_1(rc, t, sha) ==
  IF rc = 1 THEN <<Msg("NotReachableFromMain", t, sha, <<>>, "", "", <<>>)>> ELSE <<>>

\* the ancestry test on the exit status of git merge-base --is-ancestor
AncestryViolations(rc, t, sha) ==
  IF rc # 0 THEN <<Msg("NotReachableFromMain", t, sha, <<>>, "", "", <<>>)>> ELSE <<>>

\* the handler of a failed git show, recording nothing
ManifestReadViolations_silent(t) == <<>>

\* the handler of a failed git show <tag>:Cargo.toml
ManifestReadViolations(t) ==
  <<Msg("CargoTomlUnreadable", t, "", <<>>, "", "", <<>>)>>

\* the comparison of the manifest version with the tag version
ManifestMismatchViolations(cv, ver, t) ==
  IF cv # <<>> /\ cv # ver
  THEN <<Msg("ManifestVersionMismatch", t, "", ver, "", "", cv)>>
  ELSE <<>>

\* readiness computed from the violations alone
ReadyToPublish_any_mode(m, viol) == viol = <<>>

\* ready_to_publish = args.mode == "publish" and not violations
ReadyToPublish(m, viol) == m = "publish" /\ viol = <<>>

\* the exit status of main after the report is written
ExitCode(fail, viol) == IF fail /\ viol # <<>> THEN 3 ELSE 0

----------------------------------------------------------------------------
(* Inputs: tags, policies and Cargo.toml files *)

V123 == <<"1", ".", "2", ".", "3">>

\* v1.2.3-<stage>.1
PreTag(ver, st) == <<"v">> \o ver \o <<"-">> \o StageChars(st) \o <<".", "1">>

Tag_alpha == PreTag(V123, "alpha")
Tag_beta == PreTag(V123, "beta")
Tag_rc == PreTag(V123, "rc")
Tag_stable == <<"v">> \o V123
\* v1.2.30 and v1.2.30-beta.1: another version behind the same prefix
Tag_other_stable == <<"v">> \o V123 \o <<"0">>
Tag_other_beta == PreTag(V123 \o <<"0">>, "beta")
\* v1.2.3-foo: behind the prefix, not a stage tag
Tag_foo == <<"v">> \o V123 \o <<"-", "f", "o", "o">>
\* v1.2.4-rc.1: outside the prefix
Tag_next_rc == PreTag(<<"1", ".", "2", ".", "4">>, "rc")
\* 1.2.3 and v1.2.3-rc: malformed
Tag_no_v == V123
Tag_no_number == <<"v">> \o V123 \o <<"-", "r", "c">>

RepoTagUniverse ==
  {Tag_alpha, Tag_beta, Tag_rc, Tag_stable, Tag_other_stable, Tag_other_beta,
   Tag_foo, Tag_next_rc}

CandidateTags == {Tag_alpha, Tag_beta, Tag_rc, Tag_stable, Tag_no_v, Tag_no_number}

Modes == {"dry-run", "publish"}

\* required_previous_stage tables: absent, the full chain, one with an empty entry
PolicyNone == [s \in {} |-> ""]
PolicyChain == [s \in {"beta", "rc", "stable"} |->
                  CASE s = "beta" -> "alpha" [] s = "rc" -> "beta" [] OTHER -> "rc"]
PolicyRcOnly == [s \in {"alpha", "rc"} |-> IF s = "rc" THEN "beta" ELSE ""]
Policies == {PolicyNone, PolicyChain, PolicyRcOnly}

Quote == <<"\"">>
PackageLine == <<"[", "p", "a", "c", "k", "a", "g", "e", "]">>
\* Cargo.toml declaring the tag's version, another version (indented), no
\* version line, and a version line without quotes
CargoSame == <<PackageLine, VersionKey \o Quote \o V123 \o Quote>>
CargoOther == <<PackageLine,
                <<" ", " ">> \o VersionKey \o Quote \o <<"1", ".", "2", ".", "4">> \o Quote>>
CargoNoVersion == <<PackageLine>>
CargoUnquoted == <<VersionKey \o V123>>
CargoFiles == {CargoSame, CargoOther, CargoNoVersion, CargoUnquoted}

\* outcomes of git show: the RuntimeError of run_git, or the file's lines
ShowOutcomes == {[ok |-> FALSE, lines |-> <<>>]} \cup {[ok |-> TRUE, lines |-> c] : c \in CargoFiles}

\* exit statuses of git merge-base --is-ancestor: ancestor, not an ancestor,
\* and the query could not run
AncestorStatuses == {0, 1, 128}

NoShow == [ok |-> FALSE, lines |-> <<>>]

----------------------------------------------------------------------------
(* The state machine of main() *)

InitLocals ==
  /\ pc = "parse"
  /\ version = <<>>
  /\ stage = ""
  /\ stage_number = NoNumber
  /\ tag_sha = ""
  /\ proc_returncode = 0
  /\ sibling_tags = {}
  /\ sibling_stages = {}
  /\ cargo_toml = NoShow
  /\ cargo_version = <<>>
  /\ violations = <<>>
  /\ warnings = <<>>
  /\ ready_to_publish = FALSE
  /\ report = <<>>
  /\ exit_code = -1
  /\ git_calls = <<>>

Init ==
  /\ tag \in CandidateTags
  /\ mode \in Modes
  /\ fail_on_violation \in BOOLEAN
  /\ required_prev \in Policies
  /\ repo_tags \in {S \in SUBSET RepoTagUniverse : Cardinality(S) <= MaxRepoTags}
  /\ InitLocals

args == <<tag, mode, fail_on_violation, required_prev, repo_tags>>

\* parse_tag(args.tag) with the fetch issued before the tag is rejected
ParseCandidate_fetch_first ==
  /\ pc = "parse"
  /\ LET p == parse_tag(tag)
     IN  IF p.ok
         THEN /\ version' = p.version
              /\ stage' = p.stage
              /\ stage_number' = p.number
              /\ pc' = "fetch"
              /\ UNCHANGED <<exit_code, git_calls>>
         ELSE /\ pc' = "usage_error"
              /\ exit_code' = 2
              /\ git_calls' = Append(git_calls, "fetch")
              /\ UNCHANGED <<version, stage, stage_number>>
  /\ UNCHANGED <<args, tag_sha, proc_returncode, sibling_tags, sibling_stages,
                 cargo_toml, cargo_version, violations, warnings,
                 ready_to_publish, report>>

\* version, stage, stage_number = parse_tag(args.tag); ValueError returns 2
ParseCandidate ==
  /\ pc = "parse"
  /\ LET p == parse_tag(tag)
     IN  IF p.ok
         THEN /\ version' = p.version
              /\ stage' = p.stage
              /\ stage_number' = p.number
              /\ pc' = "fetch"
              /\ UNCHANGED exit_code
         ELSE /\ pc' = "usage_error"
              /\ exit_code' = 2
              /\ UNCHANGED <<version, stage, stage_number>>
  /\ UNCHANGED <<args, tag_sha, proc_returncode, sibling_tags, sibling_stages,
                 cargo_toml, cargo_version, violations, warnings,
                 ready_to_publish, report, git_calls>>

\* git fetch --quiet origin main --tags; a failure is a warning
Fetch ==
  /\ pc = "fetch"
  /\ \E ok \in BOOLEAN :
       warnings' = IF ok THEN warnings
                   ELSE Append(warnings, Msg("FetchFailed", <<>>, "", <<>>, "", "", <<>>))
  /\ git_calls' = Append(git_calls, "fetch")
  /\ pc' = "resolve"
  /\ UNCHANGED <<args, version, stage, stage_number, tag_sha, proc_returncode,
                 sibling_tags, sibling_stages, cargo_toml, cargo_version,
                 violations, ready_to_publish, report, exit_code>>

\* tag_sha = git rev-parse <tag>^{commit}; a failure is a violation
Resolve ==
  /\ pc = "resolve"
  /\ \E sha \in {"", "c0ffee"} :
       /\ tag_sha' = sha
       /\ violations' = IF sha = ""
                        THEN Append(violations, Msg("UnresolvableTag", tag, "", <<>>, "", "", <<>>))
                        ELSE violations
  /\ git_calls' = Append(git_calls, "rev-parse")
  /\ pc' = "ancestry"
  /\ UNCHANGED <<args, version, stage, stage_number, proc_returncode,
                 sibling_tags, sibling_stages, cargo_toml, cargo_version,
                 warnings, ready_to_publish, report, exit_code>>

\* if tag_sha: git merge-base --is-ancestor <tag_sha> origin/main
Ancestry ==
  /\ pc = "ancestry"
  /\ IF tag_sha # ""
     THEN \E rc \in AncestorStatuses :
            /\ proc_returncode' = rc
            /\ violations' = violations \o AncestryViolations(rc, tag, tag_sha)
            /\ git_calls' = Append(git_calls, "merge-base")
     ELSE UNCHANGED <<proc_returncode, violations, git_calls>>
  /\ pc' = "list"
  /\ UNCHANGED <<args, version, stage, stage_number, tag_sha,
                 sibling_tags, sibling_stages, cargo_toml, cargo_version,
                 warnings, ready_to_publish, report, exit_code>>

\* tags_text = git tag --list v<version>*, outside any try block: a failure
\* leaves main() by the RuntimeError; then sibling_tags and sibling_stages
ListTags ==
  /\ pc = "list"
  /\ git_calls' = Append(git_calls, "tag")
  /\ \E ok \in BOOLEAN :
       IF ok
       THEN /\ sibling_tags' = SiblingTags(GitTagList(version, repo_tags), tag)
            /\ sibling_stages' = SiblingStages(sibling_tags')
            /\ pc' = "stages"
            /\ UNCHANGED exit_code
       ELSE /\ pc' = "crashed"
            /\ exit_code' = 1
            /\ UNCHANGED <<sibling_tags, sibling_stages>>
  /\ UNCHANGED <<args, version, stage, stage_number, tag_sha, proc_returncode,
                 cargo_toml, cargo_version, violations, warnings,
                 ready_to_publish, report>>

\* the prerequisite check, then the regression check
CheckStages ==
  /\ pc = "stages"
  /\ violations' = violations
                     \o PrerequisiteViolations(required_prev, stage, sibling_stages, version, tag)
                     \o RegressionViolations(stage, sibling_stages, version)
  /\ pc' = "manifest"
  /\ UNCHANGED <<args, version, stage, stage_number, tag_sha, proc_returncode,
                 sibling_tags, sibling_stages, cargo_toml, cargo_version,
                 warnings, ready_to_publish, report, exit_code, git_calls>>

\* if tag_sha: git show <tag>:Cargo.toml and the scan for the version line;
\* then the comparison of cargo_version with version
Manifest ==
  /\ pc = "manifest"
  /\ IF tag_sha # ""
     THEN \E out \in ShowOutcomes :
            /\ cargo_toml' = out
            /\ git_calls' = Append(git_calls, "show")
            /\ IF ~out.ok
               THEN /\ cargo_version' = <<>>
                    /\ violations' = violations \o ManifestReadViolations(tag)
                    /\ pc' = "finish"
                    /\ UNCHANGED exit_code
               ELSE LET scan == ScanCargoToml(out.lines)
                    IN  IF scan.ok
                        THEN /\ cargo_version' = scan.value
                             /\ violations' = violations
                                  \o ManifestMismatchViolations(scan.value, version, tag)
                             /\ pc' = "finish"
                             /\ UNCHANGED exit_code
                        ELSE /\ pc' = "crashed"
                             /\ exit_code' = 1
                             /\ UNCHANGED <<cargo_version, violations>>
     ELSE /\ violations' = violations \o ManifestMismatchViolations(cargo_version, version, tag)
          /\ pc' = "finish"
          /\ UNCHANGED <<cargo_toml, cargo_version, git_calls, exit_code>>
  /\ UNCHANGED <<args, version, stage, stage_number, tag_sha, proc_returncode,
                 sibling_tags, sibling_stages, warnings, ready_to_publish, report>>

\* ready_to_publish, the report, the two output files and the exit status
Finish ==
  /\ pc = "finish"
  /\ ready_to_publish' = ReadyToPublish(mode, violations)
  /\ report' = <<[tag |-> tag, tag_sha |-> tag_sha, version |-> version,
                  stage |-> stage, stage_number |-> stage_number, mode |-> mode,
                  ready_to_publish |-> ready_to_publish',
                  sibling_tags |-> sibling_tags, warnings |-> warnings,
                  violations |-> violations]>>
  /\ exit_code' = ExitCode(fail_on_violation, violations)
  /\ pc' = "done"
  /\ UNCHANGED <<args, version, stage, stage_number, tag_sha, proc_returncode,
                 sibling_tags, sibling_stages, cargo_toml, cargo_version,
                 violations, warnings, git_calls>>

Next ==
  \/ ParseCandidate
  \/ Fetch
  \/ Resolve
  \/ Ancestry
  \/ ListTags
  \/ CheckStages
  \/ Manifest
  \/ Finish

Spec == Init /\ [][Next]_vars

----------------------------------------------------------------------------
(* The parser alone, on a larger set of strings *)

ParsePrefixes == {<<>>, <<"v">>, <<"V">>, <<"v", "v">>}
ParseNumbers == {<<>>, <<"0">>, <<"1", "2">>}
ParseSeparators == {<<".">>, <<>>, <<"-">>}
ParseSuffixes ==
  {<<>>,
   <<"-">> \o StageChars("alpha") \o <<".", "1">>,
   <<"-">> \o StageChars("beta") \o <<".", "2">>,
   <<"-">> \o StageChars("rc") \o <<".", "1", "0">>,
   <<"-">> \o StageChars("rc") \o <<".", "4">>,
   <<"-">> \o StageChars("rc"),
   <<"-">> \o StageChars("rc") \o <<".">>,
   <<"-">> \o StageChars("rc") \o <<"4">>,
   <<"-">> \o StageChars("rc") \o <<".", "4", "x">>,
   <<"-">> \o StageChars("rc") \o <<".", "4", "\n">>,
   <<"-">> \o StageChars("rc") \o <<".", "4", "-">> \o StageChars("beta") \o <<".", "2">>,
   <<"-", "R", "C", ".", "4">>,
   <<"-", "g", "a", "m", "m", "a", ".", "1">>,
   StageChars("alpha") \o <<".", "1">>,
   <<".", "4">>,
   <<"\n">>}

ParseInputs ==
  {p \o a \o s1 \o b \o s2 \o c \o x :
     p \in ParsePrefixes, a \in ParseNumbers, s1 \in ParseSeparators,
     b \in ParseNumbers, s2 \in ParseSeparators, c \in ParseNumbers,
     x \in ParseSuffixes}

InitParse ==
  /\ tag \in ParseInputs
  /\ mode = "dry-run"
  /\ fail_on_violation = FALSE
  /\ required_prev = PolicyNone
  /\ repo_tags = {}
  /\ InitLocals

NextParse == ParseCandidate

SpecParse == InitParse /\ [][NextParse]_vars

----------------------------------------------------------------------------
(* Vocabulary of the properties *)

HasKind(msgs, k) == \E i \in 1..Len(msgs) : msgs[i].kind = k

CountKind(msgs, k) == Cardinality({i \in 1..Len(msgs) : msgs[i].kind = k})

AllDigits(s, a, b) == a <= b /\ \A k \in a..b : s[k] \in Digits

\* s is v, digits, dot, digits, dot, digits from position 1 to position e
IsVersionForm(s, e) ==
  /\ e <= Len(s)
  /\ s[1] = "v"
  /\ \E i, j \in 2..e :
       /\ i < j
       /\ s[i] = "."
       /\ s[j] = "."
       /\ AllDigits(s, 2, i - 1)
       /\ AllDigits(s, i + 1, j - 1)
       /\ AllDigits(s, j + 1, e)

\* the grammar vX.Y.Z
IsStableForm(s) == Len(s) >= 1 /\ IsVersionForm(s, Len(s))

\* the grammar vX.Y.Z-st.N, the dash at position k
IsPrereleaseFormAt(s, st, k) ==
  LET w == Len(StageChars(st))
  IN  /\ k >= 2
      /\ k + w + 2 <= Len(s)
      /\ IsVersionForm(s, k - 1)
      /\ s[k] = "-"
      /\ SubSeq(s, k + 1, k + w) = StageChars(st)
      /\ s[k + w + 1] = "."
      /\ AllDigits(s, k + w + 2, Len(s))

IsPrereleaseForm(s, st) == \E k \in 1..Len(s) : IsPrereleaseFormAt(s, st, k)

PreStages == {"alpha", "beta", "rc"}

\* parse_tag with the two grammars tried in the other order
parse_tag_prerelease_first(t) ==
  LET stable_match == STABLE_TAG_RE(t)
      pre_match    == PRERELEASE_TAG_RE(t)
  IN  IF pre_match.ok
      THEN [ok |-> TRUE, version |-> pre_match.version, stage |-> pre_match.stage,
            number |-> pre_match.number]
      ELSE IF stable_match.ok
      THEN [ok |-> TRUE, version |-> stable_match.version, stage |-> "stable",
            number |-> NoNumber]
      ELSE [ok |-> FALSE, version |-> <<>>, stage |-> "", number |-> NoNumber]

\* the tags of the repository, other than the candidate, of the candidate's version
SameVersionSiblings ==
  {u \in repo_tags \ {tag} : parse_tag(u).ok /\ parse_tag(u).version = version}

SameVersionStages == {parse_tag(u).stage : u \in SameVersionSiblings}

\* position of a kind of violation in the order of the steps
KindRank(k) ==
  CASE k \in {"UnresolvableTag", "NotReachableFromMain"} -> 1
    [] k = "MissingPrerequisiteStage" -> 2
    [] k = "StageRegression" -> 3
    [] OTHER -> 4

InCalls(c) == \E i \in 1..Len(git_calls) : git_calls[i] = c

----------------------------------------------------------------------------
(* Properties *)

\* C1: whenever a report is produced, ready_to_publish is true exactly when
\* the mode is publish and the violations list is empty; in dry-run it is
\* false whatever the violations.
C1_ReadyIffPublishAndClean ==
  pc = "done" =>
    /\ ready_to_publish <=> (mode = "publish" /\ violations = <<>>)
    /\ report[1].ready_to_publish = ready_to_publish
    /\ mode = "dry-run" => ~ready_to_publish

\* C1 witness: a dry-run decision with no violation, not ready.
C1_Witness ==
  pc = "done" /\ mode = "dry-run" /\ violations = <<>> /\ ~ready_to_publish

\* C2: a stage-regression violation is recorded exactly when some tag of the
\* candidate's own version, other than the candidate, has a stage rank above
\* the candidate's, and then ready_to_publish is false in both modes.
C2_StageRegression ==
  pc = "done" =>
    /\ HasKind(violations, "StageRegression")
         <=> (\E st \in SameVersionStages : STAGE_RANK(st) > STAGE_RANK(stage))
    /\ HasKind(violations, "StageRegression") => ~ready_to_publish

\* C3: exactly one missing-prerequisite violation, naming the stage P and the
\* version, is recorded when the policy names a previous stage P for the
\* candidate's stage and no tag of the candidate's version has stage P; none
\* is recorded otherwise.
C3_StagePrerequisite ==
  pc = "done" =>
    LET P == PrerequisiteStage(required_prev, stage)
        missing == P # "" /\ P \notin SameVersionStages
    IN  /\ CountKind(violations, "MissingPrerequisiteStage") = IF missing THEN 1 ELSE 0
        /\ \A i \in 1..Len(violations) :
             violations[i].kind = "MissingPrerequisiteStage" =>
               violations[i].prerequisite_stage = P /\ violations[i].version = version

\* C4: for a parsable tag no failure of a git operation ends the run without
\* a report: once the run has ended, the report has been written.
C4_VerdictAlwaysProduced ==
  (parse_tag(tag).ok /\ exit_code # -1) => report # <<>>

C7_SiblingsSameVersion ==
  pc \in {"stages", "manifest", "finish", "done"} =>
    \A u \in sibling_tags : parse_tag(u).ok => parse_tag(u).version = version

\* C8: a tag that matches neither grammar ends the run with exit status 2
\* before any git command, with no violation, no warning and no report; and
\* exit status 2 is the outcome of no other run.
C8_UnparsableHaltsBeforeOracle ==
  /\ (~IsStableForm(tag) /\ \A st \in PreStages : ~IsPrereleaseForm(tag, st)) =>
       /\ pc \in {"parse", "usage_error"}
       /\ git_calls = <<>>
       /\ violations = <<>>
       /\ warnings = <<>>
       /\ report = <<>>
       /\ pc = "usage_error" => exit_code = 2
  /\ exit_code = 2 <=> pc = "usage_error"

\* C8 witness: v1.2.3-rc was rejected.
C8_Witness == pc = "usage_error" /\ tag = Tag_no_number /\ exit_code = 2

\* C9: no string matches both grammars and the order of the two attempts does
\* not matter; vX.Y.Z parses as stable with no number, vX.Y.Z-STAGE.N as that
\* stage with number N, and every other string is rejected.
C9_ParseExclusive ==
  pc # "parse" =>
    /\ ~(STABLE_TAG_RE(tag).ok /\ PRERELEASE_TAG_RE(tag).ok)
    /\ parse_tag_prerelease_first(tag) = parse_tag(tag)
    /\ IsStableForm(tag) =>
         /\ pc # "usage_error"
         /\ stage = "stable"
         /\ stage_number = NoNumber
         /\ version = SubSeq(tag, 2, Len(tag))
    /\ \A st \in PreStages : \A k \in 1..Len(tag) :
         IsPrereleaseFormAt(tag, st, k) =>
           /\ pc # "usage_error"
           /\ stage = st
           /\ stage_number = ToInt(SubSeq(tag, k + Len(StageChars(st)) + 2, Len(tag)))
           /\ version = SubSeq(tag, 2, k - 1)
    /\ (~IsStableForm(tag) /\ \A st \in PreStages : ~IsPrereleaseForm(tag, st)) =>
         pc = "usage_error"

\* C9 witness: v12.0.12-rc.10 parsed as rc with number 10.
C9_Witness ==
  /\ pc = "fetch"
  /\ tag = <<"v", "1", "2", ".", "0", ".", "1", "2", "-", "r", "c", ".", "1", "0">>
  /\ stage = "rc"
  /\ stage_number = 10
  /\ version = <<"1", "2", ".", "0", ".", "1", "2">>

\* C10: the violations are in the order of the steps and every breached rule
\* has its entry: an unresolved tag, a commit that is not an ancestor, a
\* missing prerequisite stage and a higher stage among the tags of the
\* candidate's version, a manifest version other than the tag's; only the
\* ancestry and manifest checks are skipped, and only for an unresolved tag;
\* the report carries the accumulated lists.
C10_AccumulatedInOrder ==
  pc = "done" =>
    LET P == PrerequisiteStage(required_prev, stage)
    IN  /\ \A i, j \in 1..Len(violations) :
             i < j => KindRank(violations[i].kind) <= KindRank(violations[j].kind)
        /\ tag_sha = "" <=> HasKind(violations, "UnresolvableTag")
        /\ InCalls("merge-base") <=> tag_sha # ""
        /\ InCalls("show") <=> tag_sha # ""
        /\ InCalls("tag")
        /\ (tag_sha # "" /\ proc_returncode = 1) => HasKind(violations, "NotReachableFromMain")
        /\ (P # "" /\ P \notin SameVersionStages)
             => HasKind(violations, "MissingPrerequisiteStage")
        /\ (\E st \in SameVersionStages : STAGE_RANK(st) > STAGE_RANK(stage))
             => HasKind(violations, "StageRegression")
        /\ (tag_sha # "" /\ cargo_toml.ok
              /\ ScanCargoToml(cargo_toml.lines).value \notin {<<>>, version})
             => HasKind(violations, "ManifestVersionMismatch")
        /\ report[1].violations = violations
        /\ report[1].warnings = warnings

====
